---- MODULE Spec2Model ----
(***************************************************************************)
(* A model of image-tiler (src/src/main.cpp).                              *)
(*                                                                         *)
(*  Spec      the scheduler loop of main and the worker function           *)
(*            process_image, one worker per launched task;                 *)
(*  FairSpec  Spec with weak fairness of main and of every worker;         *)
(*  PackSpec  merge_tiles_to_binary on one tile folder.                    *)
(***************************************************************************)
EXTENDS Integers, Sequences, FiniteSets, TLC

\* Bounds of the scheduler model: the longest task list and the largest
\* value of config.threads.
MaxTasks == 3
MaxThreads == 2

VARIABLES
  \* ---- main ----
  pc,               \* position of main
  n,                \* tasks.size()
  threads,          \* config.threads
  i,                \* number of tasks the for loop of line 451 has taken
  futures,          \* the vector of futures: indices of the tasks they belong to
  k,                \* position of the loop of line 463 in futures
  exit_status,      \* value returned by main, -1 while main runs
  reported,         \* completed_count.load() as printed by the summary, -1 before
  \* ---- process_image, one per task ----
  jobpc,            \* position of each worker
  result,           \* ProcessResult of each worker (success, error_message)
  current,          \* local `current` of each worker, 0 before line 402
  failedAt,         \* the step whose exception the worker caught, "none" if none
  launches,         \* how many times std::async was called for each task
  steps,            \* the steps each worker has entered, in order
  \* ---- globals ----
  completed_count,  \* std::atomic<size_t> completed_count
  cout_mutex,       \* holder of cout_mutex, 0 when free
  progress          \* the progress lines printed, in order: the task and its `current`

schedVars == <<pc, n, threads, i, futures, k, exit_status, reported, jobpc,
               result, current, failedAt, launches, steps,
               completed_count, cout_mutex, progress>>

VARIABLES
  pcm,             \* position of merge_tiles_to_binary
  fs,              \* the file system under tile_folder
  fs0,             \* the file system when merge_tiles_to_binary was called
  keep_tiles,      \* the parameter keep_tiles
  tile_files,      \* the vector tile_files
  idx,             \* position of the loop of line 259 in tile_files
  tiles_map,       \* the vector tiles_map
  current_offset,  \* the local current_offset
  thrown,          \* e.what() of the exception that left the function, "" if none
  metadata,        \* the entries written to metadata.json, in order
  run,             \* 1 in the first call on the tile folder, 2 in the second
  first            \* the blob bytes and the entries of the first call

packVars == <<pcm, fs, fs0, keep_tiles, tile_files, idx, tiles_map,
              current_offset, thrown, metadata, run, first>>

VARIABLES
  rpc,             \* position of read_tasks
  inputs,          \* the stream inputs: whether it opened, and its lines
  outputs,         \* the stream outputs: whether it opened, and its lines
  in_pos,          \* the next line std::getline reads from inputs
  out_pos,         \* the next line std::getline reads from outputs
  tasks,           \* the vector tasks
  index,           \* the local index
  rthrown          \* e.what() of the exception that left read_tasks, "" if none

readVars == <<rpc, inputs, outputs, in_pos, out_pos, tasks, index, rthrown>>

VARIABLES
  spc,             \* position of next_power_of_2 and of its caller
  max_dim,         \* the argument n: max_dim of line 355
  power,           \* the local power, and the value returned
  target_size,     \* target_size of line 356, 0 before the call has returned
  meta             \* width and height passed to write_metadata, <<>> before

sizeVars == <<spc, max_dim, power, target_size, meta>>

funVars == <<readVars, sizeVars>>

vars == <<schedVars, packVars, funVars>>

Tasks == 1..n

\* e.what() of the exception each step throws.
ErrorMessage(step) ==
  CASE step = "tiler" -> "VipsError"
    [] step = "pack"  -> "Cannot create binary file"
    [] step = "meta"  -> "Cannot create metadata file"

\* A future is ready once its worker function has returned.
IsReady(j) == jobpc[j] = "finished"

\* Launched and not yet returned.
InFlight == {j \in Tasks : jobpc[j] \notin {"idle", "finished"}}

\* line 456: futures.size() >= config.threads
CapReachedOffByOne(sz) == sz > threads
CapReached(sz) == sz >= threads

\* line 457: futures.front().wait()
AnyReady == \E x \in 1..Len(futures) : IsReady(futures[x])
FrontSucceeded == IsReady(Head(futures)) /\ failedAt[Head(futures)] = "none"
FrontNotAwaited == TRUE
FrontReady == IsReady(Head(futures))

\* line 458: futures.erase(futures.begin())
EraseFront == Tail(futures)

\* lines 470-475 and 487: the value main returns after the summary
ExitStatusAlwaysZero(cc, total) == 0
ExitStatus(cc, total) == IF cc < total THEN 1 ELSE 0

SchedInit ==
  /\ n \in 0..MaxTasks
  /\ threads \in 1..MaxThreads
  /\ pc = "read"
  /\ i = 0
  /\ futures = <<>>
  /\ k = 1
  /\ exit_status = -1
  /\ reported = -1
  /\ jobpc = [j \in 1..n |-> "idle"]
  /\ result = [j \in 1..n |-> [success |-> FALSE, error_message |-> ""]]
  /\ current = [j \in 1..n |-> 0]
  /\ failedAt = [j \in 1..n |-> "none"]
  /\ launches = [j \in 1..n |-> 0]
  /\ steps = [j \in 1..n |-> <<>>]
  /\ completed_count = 0
  /\ cout_mutex = 0
  /\ progress = <<>>

----------------------------------------------------------------------------
\* main, lines 430-487

\* lines 430-436: no task ends main with status 0
M_ReadTasks ==
  /\ pc = "read"
  /\ IF n = 0
       THEN /\ pc' = "done"
            /\ exit_status' = 0
       ELSE /\ pc' = "loop"
            /\ UNCHANGED exit_status
  /\ UNCHANGED <<packVars, funVars, steps, n, threads, i, futures, k, reported, jobpc, result, current,
                 failedAt, launches, completed_count, cout_mutex, progress>>

\* lines 451-456: take the next task, launch it, test the cap
M_Launch ==
  /\ pc = "loop"
  /\ i < n
  /\ i' = i + 1
  /\ futures' = Append(futures, i + 1)
  /\ jobpc' = [jobpc EXCEPT ![i + 1] = "load"]
  /\ launches' = [launches EXCEPT ![i + 1] = @ + 1]
  /\ pc' = IF CapReached(Len(futures')) THEN "wait" ELSE "loop"
  /\ UNCHANGED <<packVars, funVars, steps, n, threads, k, exit_status, reported, result, current,
                 failedAt, completed_count, cout_mutex, progress>>

\* lines 457-458: block on the oldest future, then erase it
M_WaitFront ==
  /\ pc = "wait"
  /\ FrontReady
  /\ futures' = EraseFront
  /\ pc' = "loop"
  /\ UNCHANGED <<packVars, funVars, steps, n, threads, i, k, exit_status, reported, jobpc, result,
                 current, failedAt, launches, completed_count, cout_mutex,
                 progress>>

\* line 451: the task list is exhausted
M_LoopEnd ==
  /\ pc = "loop"
  /\ i = n
  /\ pc' = "drain"
  /\ k' = 1
  /\ UNCHANGED <<packVars, funVars, steps, n, threads, i, futures, exit_status, reported, jobpc, result,
                 current, failedAt, launches, completed_count, cout_mutex,
                 progress>>

\* lines 463-465: wait for each remaining future in turn
M_DrainWait ==
  /\ pc = "drain"
  /\ k <= Len(futures)
  /\ IsReady(futures[k])
  /\ k' = k + 1
  /\ UNCHANGED <<packVars, funVars, steps, pc, n, threads, i, futures, exit_status, reported, jobpc,
                 result, current, failedAt, launches, completed_count,
                 cout_mutex, progress>>

\* lines 467-487: the summary and the exit status
M_Summary ==
  /\ pc = "drain"
  /\ k > Len(futures)
  /\ reported' = completed_count
  /\ exit_status' = ExitStatus(completed_count, n)
  /\ pc' = "done"
  /\ UNCHANGED <<packVars, funVars, steps, n, threads, i, futures, k, jobpc, result, current, failedAt,
                 launches, completed_count, cout_mutex, progress>>

Main ==
  \/ M_ReadTasks
  \/ M_Launch
  \/ M_WaitFront
  \/ M_LoopEnd
  \/ M_DrainWait
  \/ M_Summary

----------------------------------------------------------------------------
\* process_image, lines 343-420, run by the worker of task j

mainVars == <<pc, n, threads, i, futures, k, exit_status, reported, launches>>

\* line 385: result.success = true
SetSuccess(r) == [r EXCEPT !.success = TRUE]

\* line 411: result.error_message = e.what()
SetError(r, step) == [r EXCEPT !.error_message = ErrorMessage(step)]

\* line 402: ++completed_count, one atomic read-modify-write
IncrementLost(c) == IF c = 0 THEN 1 ELSE c
Increment(c) == c + 1

\* lines 405-407: the progress line "[current/total] ... input_path ..."
ProgressLine(j, value) == [task |-> j, current |-> value]

\* lines 359, 391, 404, 413: the lock_guard gets cout_mutex when it is free
MutexIgnored == TRUE
MutexFree == cout_mutex = 0

\* line 410: an exception thrown by a step of the try block lands in the
\* handler
CatchTargetSkipsPack(step) == IF step = "pack" THEN "meta" ELSE "catch"
CatchTarget(step) == "catch"

\* a std::lock_guard on cout_mutex is constructed (lines 359, 391, 404, 413)
P_Lock(j) ==
  /\ jobpc[j] \in {"lockA", "lockB", "lockC", "lockE"}
  /\ MutexFree
  /\ cout_mutex' = j
  /\ jobpc' = [jobpc EXCEPT ![j] =
                 CASE @ = "lockA" -> "printA"
                   [] @ = "lockB" -> "printB"
                   [] @ = "lockC" -> "printC"
                   [] @ = "lockE" -> "printE"]
  /\ UNCHANGED <<packVars, funVars, mainVars, steps, result, current, failedAt, completed_count,
                 progress>>

\* line 348: VImage::new_from_file, which throws on an unreadable input
P_Load(j) ==
  /\ jobpc[j] = "load"
  /\ steps' = [steps EXCEPT ![j] = Append(@, "tiler")]
  /\ \E ok \in BOOLEAN :
       IF ok
         THEN /\ jobpc' = [jobpc EXCEPT ![j] = "lockA"]
              /\ UNCHANGED failedAt
         ELSE /\ jobpc' = [jobpc EXCEPT ![j] = CatchTarget("tiler")]
              /\ failedAt' = [failedAt EXCEPT ![j] = "tiler"]
  /\ UNCHANGED <<packVars, funVars, mainVars, result, current, completed_count, cout_mutex,
                 progress>>

\* lines 360-363: the dimensions line, then the lock is released
P_PrintDims(j) ==
  /\ jobpc[j] = "printA"
  /\ cout_mutex = j
  /\ cout_mutex' = 0
  /\ jobpc' = [jobpc EXCEPT ![j] = "dzsave"]
  /\ UNCHANGED <<packVars, funVars, mainVars, steps, result, current, failedAt, completed_count,
                 progress>>

\* lines 366-387: resize and dzsave (the external tiler), then success = true
P_Dzsave(j) ==
  /\ jobpc[j] = "dzsave"
  /\ \E ok \in BOOLEAN :
       IF ok
         THEN /\ jobpc' = [jobpc EXCEPT ![j] = "lockB"]
              /\ result' = [result EXCEPT ![j] = SetSuccess(@)]
              /\ UNCHANGED failedAt
         ELSE /\ jobpc' = [jobpc EXCEPT ![j] = CatchTarget("tiler")]
              /\ failedAt' = [failedAt EXCEPT ![j] = "tiler"]
              /\ UNCHANGED result
  /\ UNCHANGED <<packVars, funVars, mainVars, steps, current, completed_count, cout_mutex, progress>>

\* line 392: the "Merging tiles" line, then the lock is released
P_PrintMerging(j) ==
  /\ jobpc[j] = "printB"
  /\ cout_mutex = j
  /\ cout_mutex' = 0
  /\ jobpc' = [jobpc EXCEPT ![j] = "merge"]
  /\ UNCHANGED <<packVars, funVars, mainVars, steps, result, current, failedAt, completed_count,
                 progress>>

\* lines 395-396: merge_tiles_to_binary returns or throws
P_Merge(j) ==
  /\ jobpc[j] = "merge"
  /\ steps' = [steps EXCEPT ![j] = Append(@, "pack")]
  /\ \E ok \in BOOLEAN :
       IF ok
         THEN /\ jobpc' = [jobpc EXCEPT ![j] = "meta"]
              /\ UNCHANGED failedAt
         ELSE /\ jobpc' = [jobpc EXCEPT ![j] = CatchTarget("pack")]
              /\ failedAt' = [failedAt EXCEPT ![j] = "pack"]
  /\ UNCHANGED <<packVars, funVars, mainVars, result, current, completed_count, cout_mutex,
                 progress>>

\* lines 399-400: write_metadata returns or throws
P_WriteMetadata(j) ==
  /\ jobpc[j] = "meta"
  /\ steps' = [steps EXCEPT ![j] = Append(@, "meta")]
  /\ \E ok \in BOOLEAN :
       IF ok
         THEN /\ jobpc' = [jobpc EXCEPT ![j] = "inc"]
              /\ UNCHANGED failedAt
         ELSE /\ jobpc' = [jobpc EXCEPT ![j] = CatchTarget("meta")]
              /\ failedAt' = [failedAt EXCEPT ![j] = "meta"]
  /\ UNCHANGED <<packVars, funVars, mainVars, result, current, completed_count, cout_mutex,
                 progress>>

\* line 402: size_t current = ++completed_count
P_Count(j) ==
  /\ jobpc[j] = "inc"
  /\ steps' = [steps EXCEPT ![j] = Append(@, "count")]
  /\ completed_count' = Increment(completed_count)
  /\ current' = [current EXCEPT ![j] = completed_count']
  /\ jobpc' = [jobpc EXCEPT ![j] = "lockC"]
  /\ UNCHANGED <<packVars, funVars, mainVars, result, failedAt, cout_mutex, progress>>

\* lines 405-408 and 419: the progress line, the lock is released, return
P_PrintProgress(j) ==
  /\ jobpc[j] = "printC"
  /\ cout_mutex = j
  /\ progress' = Append(progress, ProgressLine(j, current[j]))
  /\ cout_mutex' = 0
  /\ jobpc' = [jobpc EXCEPT ![j] = "finished"]
  /\ UNCHANGED <<packVars, funVars, mainVars, steps, result, current, failedAt, completed_count>>

\* lines 410-411: the handler stores the message
P_Catch(j) ==
  /\ jobpc[j] = "catch"
  /\ result' = [result EXCEPT ![j] = SetError(@, failedAt[j])]
  /\ jobpc' = [jobpc EXCEPT ![j] = "lockE"]
  /\ UNCHANGED <<packVars, funVars, mainVars, steps, current, failedAt, completed_count, cout_mutex,
                 progress>>

\* lines 414-419: the error line, the lock is released, return
P_PrintError(j) ==
  /\ jobpc[j] = "printE"
  /\ cout_mutex = j
  /\ cout_mutex' = 0
  /\ jobpc' = [jobpc EXCEPT ![j] = "finished"]
  /\ UNCHANGED <<packVars, funVars, mainVars, steps, result, current, failedAt, completed_count,
                 progress>>

process_image(j) ==
  \/ P_Load(j)
  \/ P_Lock(j)
  \/ P_PrintDims(j)
  \/ P_Dzsave(j)
  \/ P_PrintMerging(j)
  \/ P_Merge(j)
  \/ P_WriteMetadata(j)
  \/ P_Count(j)
  \/ P_PrintProgress(j)
  \/ P_Catch(j)
  \/ P_PrintError(j)

SchedNext ==
  \/ M_ReadTasks
  \/ M_Launch
  \/ M_WaitFront
  \/ M_LoopEnd
  \/ M_DrainWait
  \/ M_Summary
  \/ \E j \in Tasks : P_Load(j)
  \/ \E j \in Tasks : P_Lock(j)
  \/ \E j \in Tasks : P_PrintDims(j)
  \/ \E j \in Tasks : P_Dzsave(j)
  \/ \E j \in Tasks : P_PrintMerging(j)
  \/ \E j \in Tasks : P_Merge(j)
  \/ \E j \in Tasks : P_WriteMetadata(j)
  \/ \E j \in Tasks : P_Count(j)
  \/ \E j \in Tasks : P_PrintProgress(j)
  \/ \E j \in Tasks : P_Catch(j)
  \/ \E j \in Tasks : P_PrintError(j)

----------------------------------------------------------------------------
\* merge_tiles_to_binary, lines 216-306, on one tile folder.
\*
\* A file name is the sequence of its character codes, a path (relative to
\* tile_folder) the sequence of its names, and the file system a function
\* from the paths that exist to [kind, data, readable].

\* Bounds of the packer model: the number of leaf entries of the tile folder
\* and the number of its files that cannot be read.
MaxEntries == 3
MaxUnreadable == 1

N_0 == <<48>>                                   \* "0"
N_2 == <<50>>                                   \* "2"
N_7 == <<55>>                                   \* "7"
N_10 == <<49, 48>>                              \* "10"
N_0dash1 == <<48, 45, 49>>                      \* "0-1"
N_aux == <<97, 117, 120>>                       \* "aux"
N_0jpg == <<48, 46, 106, 112, 103>>             \* "0.jpg"
N_0PNG == <<48, 46, 80, 78, 71>>                \* "0.PNG"
N_1jpeg == <<49, 46, 106, 112, 101, 103>>       \* "1.jpeg"
N_1txt == <<49, 46, 116, 120, 116>>             \* "1.txt"
N_dpng == <<100, 46, 112, 110, 103>>            \* "d.png"
N_0png == <<48, 46, 112, 110, 103>>             \* "0.png"
\* line 299: "blank.png"
BlankName == <<98, 108, 97, 110, 107, 46, 112, 110, 103>>
\* line 396: "tiles_000.binz"
BinaryName == <<116, 105, 108, 101, 115, 95, 48, 48, 48, 46, 98, 105, 110, 122>>

\* line 220: binary_path = tile_folder / binary_name
BinaryPath == <<BinaryName>>
\* line 299: blank_png = tile_folder / "blank.png"
BlankPath == <<BlankName>>

\* The leaf entries a tile folder is built from; the directories above a
\* leaf exist with it.
Candidates ==
  { [path |-> <<N_0, N_0, N_0jpg>>,          kind |-> "file", data |-> <<7>>],
    [path |-> <<N_0, N_0, N_0PNG>>,          kind |-> "file", data |-> <<>>],
    [path |-> <<N_0, N_0, N_1txt>>,          kind |-> "file", data |-> <<3>>],
    [path |-> <<N_0, N_0, N_dpng, N_0jpg>>,  kind |-> "file", data |-> <<4>>],
    [path |-> <<N_0, N_0dash1, N_0jpg>>,     kind |-> "file", data |-> <<8, 8>>],
    [path |-> <<N_0, N_1jpeg>>,              kind |-> "file", data |-> <<5>>],
    [path |-> <<N_10, N_0, N_0jpg>>,         kind |-> "file", data |-> <<9, 9, 9>>],
    [path |-> <<N_2, N_10, N_1jpeg>>,        kind |-> "file", data |-> <<6, 6>>],
    [path |-> <<N_2, N_2>>,                  kind |-> "dir",  data |-> <<>>],
    [path |-> <<N_aux, N_0, N_0jpg>>,        kind |-> "file", data |-> <<2>>],
    [path |-> <<N_7>>,                       kind |-> "file", data |-> <<1>>],
    [path |-> <<N_0png>>,                    kind |-> "file", data |-> <<1, 1>>],
    [path |-> BlankPath,                     kind |-> "file", data |-> <<>>],
    [path |-> BinaryPath,                    kind |-> "file", data |-> <<0, 0>>] }

Prefixes(p) == {SubSeq(p, 1, l) : l \in 1..Len(p)}

\* The tile folder holding the leaves S, the files of U unreadable.
Tree(S, U) ==
  LET paths == UNION {Prefixes(c.path) : c \in S}
      leaf(p) == CHOOSE c \in S : c.path = p
  IN [p \in paths |->
        IF \E c \in S : c.path = p
          THEN [kind |-> leaf(p).kind, data |-> leaf(p).data,
                readable |-> p \notin U]
          ELSE [kind |-> "dir", data |-> <<>>, readable |-> TRUE]]

Trees ==
  {Tree(S, U) :
     S \in {T \in SUBSET Candidates : Cardinality(T) <= MaxEntries},
     U \in {V \in SUBSET {c.path : c \in {d \in Candidates : d.kind = "file"}} :
              Cardinality(V) <= MaxUnreadable}}

\* entry.is_directory(), entry.is_regular_file()
IsDirectory(f, p) == p \in DOMAIN f /\ f[p].kind = "dir"
IsRegularFile(f, p) == p \in DOMAIN f /\ f[p].kind = "file"

\* ::isdigit and ::tolower on one character
IsDigit(c) == c \in 48..57
ToLower(c) == IF c \in 65..90 THEN c + 32 ELSE c

\* lines 236, 293: std::all_of(name.begin(), name.end(), ::isdigit)
AllDigits(name) == \A x \in 1..Len(name) : IsDigit(name[x])

\* path::extension(): from the last dot, unless that dot starts the name
LastDot(name) ==
  IF \E x \in 1..Len(name) : name[x] = 46
    THEN CHOOSE x \in 1..Len(name) :
           name[x] = 46 /\ \A y \in (x + 1)..Len(name) : name[y] # 46
    ELSE 0
Extension(name) ==
  IF LastDot(name) <= 1 \/ name = <<46, 46>>
    THEN <<>>
    ELSE SubSeq(name, LastDot(name), Len(name))
\* path::stem(): the name without its extension
Stem(name) == SubSeq(name, 1, Len(name) - Len(Extension(name)))

\* line 247: std::transform(..., ::tolower)
LowerCase(s) == [x \in 1..Len(s) |-> ToLower(s[x])]

\* line 248: ext == ".png" || ext == ".jpg" || ext == ".jpeg"
IsTileExtension(ext) ==
  ext \in { <<46, 112, 110, 103>>, <<46, 106, 112, 103>>,
            <<46, 106, 112, 101, 103>> }

\* lines 232-253: the paths the three nested directory iterations push
Discovered(f) ==
  {p \in DOMAIN f :
     /\ Len(p) = 3
     /\ IsDirectory(f, SubSeq(p, 1, 1))
     /\ AllDigits(p[1])
     /\ IsDirectory(f, SubSeq(p, 1, 2))
     /\ IsRegularFile(f, p)
     /\ IsTileExtension(LowerCase(Extension(p[3])))}

\* The orders a directory enumeration may deliver a set of paths in.
Enumerations(S) ==
  {e \in [1..Cardinality(S) -> S] :
     \A x, y \in 1..Cardinality(S) : x # y => e[x] # e[y]}

\* std::string operator< on two names
RECURSIVE NameLess(_, _)
NameLess(a, b) ==
  IF b = <<>> THEN FALSE
  ELSE IF a = <<>> THEN TRUE
  ELSE IF Head(a) # Head(b) THEN Head(a) < Head(b)
  ELSE NameLess(Tail(a), Tail(b))

\* fs::path operator<: lexicographic over the elements of the two paths
RECURSIVE PathLess(_, _)
PathLess(p, q) ==
  IF q = <<>> THEN FALSE
  ELSE IF p = <<>> THEN TRUE
  ELSE IF Head(p) # Head(q) THEN NameLess(Head(p), Head(q))
  ELSE PathLess(Tail(p), Tail(q))

\* line 256: std::sort(tile_files.begin(), tile_files.end())
RECURSIVE Insert(_, _)
Insert(p, s) ==
  IF s = <<>> THEN <<p>>
  ELSE IF PathLess(p, Head(s)) THEN <<p>> \o s
  ELSE <<Head(s)>> \o Insert(p, Tail(s))
\* line 256 with the sort left out
SortPathsNone(s) == s

RECURSIVE SortPaths(_)
SortPaths(s) == IF s = <<>> THEN <<>> ELSE Insert(Head(s), SortPaths(Tail(s)))

\* lines 261-264: the bytes read from a tile; a stream that failed to open
\* yields none
ReadTile(f, p) == IF f[p].readable THEN f[p].data ELSE <<>>

\* lines 186-214: gzip_compress as a stored stream: the two magic bytes, the
\* payload, the length trailer
gzip_compress(data) == <<31, 139>> \o data \o <<Len(data)>>

\* lines 273-278: key = level + "_" + tile_y + "_" + tile_x
TileKey(p) == p[Len(p) - 2] \o <<95>> \o p[Len(p) - 1] \o <<95>> \o Stem(p[Len(p)])

\* line 280: the entry pushed for a tile
TileInfo(p, offset, compressed) ==
  [key |-> TileKey(p), binary_name |-> BinaryName, start_offset |-> offset,
   size |-> Len(compressed)]

\* line 282: current_offset += compressed.size()
AdvanceSkipsOne(offset, size) == offset + size + 1
Advance(offset, size) == offset + size

\* line 221: the ofstream creates the blob, or truncates the one present
CreateBlobEarlyCleanup(f) ==
  [p \in (DOMAIN f \ {<<BlankName>>}) \cup {BinaryPath} |->
     IF p = BinaryPath
       THEN [kind |-> "file", data |-> <<>>, readable |-> TRUE]
       ELSE f[p]]
CreateBlob(f) ==
  [p \in DOMAIN f \cup {BinaryPath} |->
     IF p = BinaryPath
       THEN [kind |-> "file", data |-> <<>>, readable |-> TRUE]
       ELSE f[p]]

\* line 270: binary_file.write(compressed.data(), compressed.size())
WriteBlob(f, bytes) == [f EXCEPT ![BinaryPath].data = @ \o bytes]

\* lines 289-296: fs::remove_all on every all-digit directory of the root
RemoveLevels(f) ==
  LET gone == {p \in DOMAIN f :
                 IsDirectory(f, SubSeq(p, 1, 1)) /\ AllDigits(p[1])}
  IN [p \in DOMAIN f \ gone |-> f[p]]

\* lines 299-302: blank.png is removed when it exists
RemoveBlank(f) == [p \in DOMAIN f \ {BlankPath} |-> f[p]]

\* lines 288-303
CleanupKeepsBlank(f) == RemoveLevels(f)
Cleanup(f) == RemoveBlank(RemoveLevels(f))

PackInit ==
  /\ fs \in Trees
  /\ fs0 = fs
  /\ keep_tiles \in BOOLEAN
  /\ pcm = "open"
  /\ tile_files = <<>>
  /\ idx = 1
  /\ tiles_map = <<>>
  /\ current_offset = 0
  /\ thrown = ""
  /\ metadata = <<>>
  /\ run = 1
  /\ first = <<>>

\* lines 219-228
K_Open ==
  /\ UNCHANGED <<schedVars, funVars>>
  /\ pcm = "open"
  /\ \E ok \in BOOLEAN :
       IF ok /\ ~IsDirectory(fs, BinaryPath)
         THEN /\ fs' = CreateBlob(fs)
              /\ pcm' = "discover"
              /\ UNCHANGED thrown
         ELSE /\ thrown' = "Cannot create binary file"
              /\ pcm' = "thrown"
              /\ UNCHANGED fs
  /\ UNCHANGED <<run, first, fs0, keep_tiles, tile_files, idx, tiles_map, current_offset,
                 metadata>>

\* lines 230-256: discovery in whatever order the directories are
\* enumerated, then the sort
K_Discover ==
  /\ UNCHANGED <<schedVars, funVars>>
  /\ pcm = "discover"
  /\ \E order \in Enumerations(Discovered(fs)) :
       tile_files' = SortPaths(order)
  /\ idx' = 1
  /\ pcm' = "pack"
  /\ UNCHANGED <<run, first, fs, fs0, keep_tiles, tiles_map, current_offset, thrown,
                 metadata>>

\* lines 259-283: one iteration of the packing loop
K_PackTile ==
  /\ UNCHANGED <<schedVars, funVars>>
  /\ pcm = "pack"
  /\ idx <= Len(tile_files)
  /\ \E ok \in BOOLEAN :
       LET tile_path == tile_files[idx]
           compressed == gzip_compress(ReadTile(fs, tile_path))
       IN IF ok
            THEN /\ fs' = WriteBlob(fs, compressed)
                 /\ tiles_map' = Append(tiles_map,
                                   TileInfo(tile_path, current_offset, compressed))
                 /\ current_offset' = Advance(current_offset, Len(compressed))
                 /\ idx' = idx + 1
                 /\ UNCHANGED <<pcm, thrown>>
            ELSE /\ thrown' = "Failed to compress data"
                 /\ pcm' = "thrown"
                 /\ UNCHANGED <<fs, tiles_map, current_offset, idx>>
  /\ UNCHANGED <<run, first, fs0, keep_tiles, tile_files, metadata>>

\* lines 285-305: the blob is closed, the tiles are removed unless kept
K_Finish ==
  /\ UNCHANGED <<schedVars, funVars>>
  /\ pcm = "pack"
  /\ idx > Len(tile_files)
  /\ fs' = IF keep_tiles THEN fs ELSE Cleanup(fs)
  /\ pcm' = "returned"
  /\ UNCHANGED <<run, first, fs0, keep_tiles, tile_files, idx, tiles_map, current_offset,
                 thrown, metadata>>

merge_tiles_to_binary ==
  \/ K_Open
  \/ K_Discover
  \/ K_PackTile
  \/ K_Finish

----------------------------------------------------------------------------
\* write_metadata, lines 308-341, called with the entries merge returned

\* line 310: "metadata.json"
MetaName == <<109, 101, 116, 97, 100, 97, 116, 97, 46, 106, 115, 111, 110>>
\* line 310: meta_path = output_folder / "metadata.json"
MetaPath == <<MetaName>>

\* line 311: the ofstream creates the descriptor
CreateMeta(f) ==
  [p \in DOMAIN f \cup {MetaPath} |->
     IF p = MetaPath
       THEN [kind |-> "file", data |-> <<>>, readable |-> TRUE]
       ELSE f[p]]

\* lines 311-340
write_metadata ==
  /\ UNCHANGED <<schedVars, funVars>>
  /\ pcm = "returned"
  /\ \E ok \in BOOLEAN :
       IF ok /\ ~IsDirectory(fs, MetaPath)
         THEN /\ fs' = CreateMeta(fs)
              /\ metadata' = tiles_map
              /\ pcm' = "written"
              /\ UNCHANGED thrown
         ELSE /\ thrown' = "Cannot create metadata file"
              /\ pcm' = "thrown"
              /\ UNCHANGED <<fs, metadata>>
  /\ UNCHANGED <<run, first, fs0, keep_tiles, tile_files, idx, tiles_map, current_offset>>

----------------------------------------------------------------------------
\* A second call of merge_tiles_to_binary on the same tile folder, the tiles
\* having been kept: lines 216-228 with the files of the first call in place

\* What a call leaves behind: the bytes of the blob and the entries returned.
Outcome(f, entries) == [blob |-> f[BinaryPath].data, entries |-> entries]

K_Rerun ==
  /\ UNCHANGED <<schedVars, funVars>>
  /\ pcm \in {"returned", "written"}
  /\ keep_tiles
  /\ run = 1
  /\ first' = Outcome(fs, tiles_map)
  /\ run' = 2
  /\ fs0' = fs
  /\ pcm' = "open"
  /\ tile_files' = <<>>
  /\ idx' = 1
  /\ tiles_map' = <<>>
  /\ current_offset' = 0
  /\ UNCHANGED <<fs, keep_tiles, thrown, metadata>>

----------------------------------------------------------------------------
\* read_tasks, lines 151-174

MaxLines == 3

\* Lines of the two list files, as character codes: "", "a", "b".
Lines == {<<>>, <<97>>, <<98>>}

LineLists == UNION {[1..m -> Lines] : m \in 0..MaxLines}

\* A list file: one that opens, with its lines, or one that does not open.
ListFiles ==
  {[is_open |-> TRUE, lines |-> l] : l \in LineLists}
    \cup {[is_open |-> FALSE, lines |-> <<>>]}

\* std::getline(stream, line) succeeds while a line is left.
GetLine(stream, pos) == pos <= Len(stream.lines)

\* line 168 testing the input line only
InputNonEmpty(input_path, output_path) == input_path # <<>>

\* line 168
BothNonEmpty(input_path, output_path) ==
  input_path # <<>> /\ output_path # <<>>

\* line 169: {input_path, output_path, index++}
ImageTask(input_path, output_path, ix) ==
  [input_path |-> input_path, output_path |-> output_path, index |-> ix]

ReadIdle ==
  /\ rpc = "idle"
  /\ inputs = [is_open |-> FALSE, lines |-> <<>>]
  /\ outputs = [is_open |-> FALSE, lines |-> <<>>]
  /\ in_pos = 1
  /\ out_pos = 1
  /\ tasks = <<>>
  /\ index = 0
  /\ rthrown = ""

\* lines 153-155, 164-165
ReadInit ==
  /\ rpc = "open"
  /\ inputs \in ListFiles
  /\ outputs \in ListFiles
  /\ in_pos = 1
  /\ out_pos = 1
  /\ tasks = <<>>
  /\ index = 0
  /\ rthrown = ""

\* lines 157-162
R_Open ==
  /\ UNCHANGED <<schedVars, packVars, sizeVars>>
  /\ rpc = "open"
  /\ IF ~inputs.is_open
       THEN rpc' = "thrown" /\ rthrown' = "Cannot open input file"
       ELSE IF ~outputs.is_open
              THEN rpc' = "thrown" /\ rthrown' = "Cannot open output file"
              ELSE rpc' = "loop" /\ UNCHANGED rthrown
  /\ UNCHANGED <<inputs, outputs, in_pos, out_pos, tasks, index>>

\* lines 166-171: both std::getline calls succeed, the body runs once
R_Iterate ==
  /\ UNCHANGED <<schedVars, packVars, sizeVars>>
  /\ rpc = "loop"
  /\ GetLine(inputs, in_pos)
  /\ GetLine(outputs, out_pos)
  /\ LET input_path == inputs.lines[in_pos]
         output_path == outputs.lines[out_pos]
     IN IF BothNonEmpty(input_path, output_path)
          THEN /\ tasks' = Append(tasks, ImageTask(input_path, output_path, index))
               /\ index' = index + 1
          ELSE UNCHANGED <<tasks, index>>
  /\ in_pos' = in_pos + 1
  /\ out_pos' = out_pos + 1
  /\ UNCHANGED <<rpc, inputs, outputs, rthrown>>

\* lines 166-167, 173: one std::getline fails; the second is not called when
\* the first fails, and a line read from inputs is dropped when the second fails
R_Return ==
  /\ UNCHANGED <<schedVars, packVars, sizeVars>>
  /\ rpc = "loop"
  /\ ~(GetLine(inputs, in_pos) /\ GetLine(outputs, out_pos))
  /\ in_pos' = IF GetLine(inputs, in_pos) THEN in_pos + 1 ELSE in_pos
  /\ rpc' = "returned"
  /\ UNCHANGED <<inputs, outputs, out_pos, tasks, index, rthrown>>

read_tasks == R_Open \/ R_Iterate \/ R_Return

----------------------------------------------------------------------------
\* next_power_of_2, lines 176-184, and the use of its result, lines 354-399

MaxDim == 40

\* The largest and the smallest int.
IntMax == 2147483647
IntMin == -IntMax - 1

\* The largest power for which power * 2 is an int: 2^30 - 1 and below.
HalfMax == IntMax \div 2

\* The arguments tried: the small ones and those around 2^30 and 2^31.
Dims == (-1..MaxDim) \cup {HalfMax, HalfMax + 1, HalfMax + 2, IntMax}

\* line 180 with <= for <
LoopTestInclusive(pw, m) == pw <= m

\* line 180
LoopTest(pw, m) == pw < m

\* line 181 when power * 2 is not an int: the value a wrapping build leaves
Wrapped(pw) == IF pw > 0 THEN IntMin + (pw - (HalfMax + 1)) * 2
                         ELSE (pw - IntMin) * 2

\* line 181 when power * 2 is not an int: values another build may return
Garbage == {IntMin, 0, IntMax}

SizeIdle ==
  /\ spc = "idle"
  /\ max_dim = 0
  /\ power = 0
  /\ target_size = 0
  /\ meta = <<>>

\* line 355
SizeInit ==
  /\ spc = "call"
  /\ max_dim \in Dims
  /\ power = 0
  /\ target_size = 0
  /\ meta = <<>>

\* lines 177-179
S_Enter ==
  /\ UNCHANGED <<schedVars, packVars, readVars>>
  /\ spc = "call"
  /\ power' = 1
  /\ spc' = IF max_dim <= 0 THEN "returned" ELSE "loop"
  /\ UNCHANGED <<max_dim, target_size, meta>>

\* lines 180-182, one iteration
S_Loop ==
  /\ UNCHANGED <<schedVars, packVars, readVars>>
  /\ spc = "loop"
  /\ LoopTest(power, max_dim)
  /\ IF power <= HalfMax /\ power >= -(HalfMax + 1)
       THEN power' = power * 2 /\ UNCHANGED spc
       ELSE \/ power' = Wrapped(power) /\ UNCHANGED spc
            \/ power' \in Garbage /\ spc' = "returned"
  /\ UNCHANGED <<max_dim, target_size, meta>>

\* lines 180, 183
S_Exit ==
  /\ UNCHANGED <<schedVars, packVars, readVars>>
  /\ spc = "loop"
  /\ ~LoopTest(power, max_dim)
  /\ spc' = "returned"
  /\ UNCHANGED <<max_dim, power, target_size, meta>>

\* lines 356, 386-387, 399
S_Record ==
  /\ UNCHANGED <<schedVars, packVars, readVars>>
  /\ spc = "returned"
  /\ target_size' = power
  /\ meta' = [width |-> power, height |-> power]
  /\ spc' = "recorded"
  /\ UNCHANGED <<max_dim, power>>

next_power_of_2 == S_Enter \/ S_Loop \/ S_Exit

----------------------------------------------------------------------------
\* The specifications

\* The packer is not running.
PackIdle ==
  /\ pcm = "idle"
  /\ fs = <<>>
  /\ fs0 = <<>>
  /\ keep_tiles = FALSE
  /\ tile_files = <<>>
  /\ idx = 1
  /\ tiles_map = <<>>
  /\ current_offset = 0
  /\ thrown = ""
  /\ metadata = <<>>
  /\ run = 1
  /\ first = <<>>

\* The scheduler is not running.
SchedIdle ==
  /\ n = 0
  /\ threads = 1
  /\ pc = "idle"
  /\ i = 0
  /\ futures = <<>>
  /\ k = 1
  /\ exit_status = -1
  /\ reported = -1
  /\ jobpc = <<>>
  /\ result = <<>>
  /\ current = <<>>
  /\ failedAt = <<>>
  /\ launches = <<>>
  /\ steps = <<>>
  /\ completed_count = 0
  /\ cout_mutex = 0
  /\ progress = <<>>

\* No function is being called on its own.
FunIdle == ReadIdle /\ SizeIdle

Init == SchedInit /\ PackIdle /\ FunIdle
Next == SchedNext
Spec == Init /\ [][Next]_vars

FairSpec ==
  /\ Spec
  /\ WF_vars(Main)
  /\ \A j \in 1..MaxTasks :
       WF_vars(j \in Tasks /\ process_image(j))

PackStart == SchedIdle /\ PackInit /\ FunIdle
PackNext == merge_tiles_to_binary \/ write_metadata \/ K_Rerun
PackSpec == PackStart /\ [][PackNext]_vars

ReadStart == SchedIdle /\ PackIdle /\ SizeIdle /\ ReadInit
ReadNext == read_tasks
ReadSpec == ReadStart /\ [][ReadNext]_vars

\* The code of lines 176-184 and 356-399 runs in one thread and does not
\* wait: it takes its next step whenever it has one.
SizeStart == SchedIdle /\ PackIdle /\ ReadIdle /\ SizeInit
SizeNext == next_power_of_2 \/ S_Record
SizeSpec == SizeStart /\ [][SizeNext]_vars /\ WF_vars(SizeNext)

----------------------------------------------------------------------------
\* The claims about the scheduler (Spec, FairSpec)

\* The tasks whose worker caught no exception: all three steps succeeded.
Succeeded == {j \in Tasks : IsReady(j) /\ failedAt[j] = "none"}

\* C1: in every reachable state of the scheduler loop, the number of jobs
\* launched and not yet finished is at most config.threads.
C1_BoundedConcurrency == Cardinality(InFlight) <= threads

\* C1 witness: the cap is reached with two workers running and tasks left.
C1_Witness ==
  /\ pc = "wait"
  /\ threads >= 2
  /\ i < n
  /\ Cardinality(InFlight) = threads

\* C2 as claimed: whenever the cap is reached, tasks remain and some future
\* of the vector is ready, main can go on to admit the next task.
C2_AnyCompletionAdmits ==
  (pc = "wait" /\ i < n /\ AnyReady) => ENABLED M_WaitFront

\* C2 amended: main leaves the wait of line 457 only when the oldest future
\* is ready, and what it then erases is that oldest future; a ready future
\* behind a running oldest one frees no slot.
C2_OldestCompletionAdmits ==
  [][(pc = "wait" /\ pc' # "wait") =>
       (IsReady(Head(futures)) /\ futures' = Tail(futures))]_vars

\* C2 witness: the cap is reached, tasks remain, a younger job has finished
\* and the oldest one is still running.
C2_Witness ==
  /\ pc = "wait"
  /\ i < n
  /\ AnyReady
  /\ ~IsReady(Head(futures))

\* C3: every task is launched exactly once, runs to its own completion or
\* failure whatever the other tasks do, and main reaches the end (the
\* summary, or the early return of an empty list).
C3_EveryJobRuns ==
  /\ [](\A j \in Tasks : launches[j] <= 1)
  /\ [](\A j \in Tasks : IsReady(j) =>
          \/ failedAt[j] = "none" /\ current[j] >= 1
          \/ failedAt[j] # "none" /\ result[j].error_message # "")
  /\ [](pc = "done" => \A j \in Tasks : launches[j] = 1 /\ IsReady(j))
  /\ <>(pc = "done")

\* C3 witness: main is done, the first task failed and a later one succeeded.
C3_Witness ==
  /\ pc = "done"
  /\ n >= 2
  /\ failedAt[1] # "none"
  /\ failedAt[2] = "none"
  /\ IsReady(2)

\* C4 as claimed: a job that failed at any step returns success = false and
\* a non-empty message, and success = true only if every step succeeded.
C4_FailureReported ==
  \A j \in Tasks : IsReady(j) =>
    /\ failedAt[j] # "none" =>
         (~result[j].success /\ result[j].error_message # "")
    /\ result[j].success => failedAt[j] = "none"

\* C5: the exit status is set only when every task has finished; it is 0
\* exactly when every task succeeded in all its steps, and the completed count
\* of the summary is the number of tasks that succeeded.
C5_Summary ==
  exit_status # -1 =>
    /\ \A j \in Tasks : IsReady(j)
    /\ exit_status \in {0, 1}
    /\ exit_status = 0 <=> Succeeded = Tasks
    /\ n > 0 => reported = Cardinality(Succeeded)

\* C5 witness: a summary of three tasks, one failed and two succeeded.
C5_Witness ==
  /\ pc = "done"
  /\ n = 3
  /\ exit_status = 1
  /\ reported = 2

\* The workers inside a locked block, writing a line to the console.
Printing ==
  {j \in Tasks : jobpc[j] \in {"printA", "printB", "printC", "printE"}}

\* The workers that have executed line 402.
Counted == {j \in Tasks : current[j] > 0}

\* C14: no increment of completed_count is lost (the values the workers
\* obtained are pairwise distinct and are exactly 1..completed_count, and at
\* the end the counter is the number of successful tasks), and at most one
\* worker at a time is writing a line to the console.
C14_CounterAndConsole ==
  /\ Cardinality(Printing) <= 1
  /\ \A a, b \in Counted : a # b => current[a] # current[b]
  /\ {current[j] : j \in Counted} = 1..completed_count
  /\ pc = "done" => completed_count = Cardinality(Succeeded)

\* C14 witness: two workers have counted, one is printing its progress line
\* and the other waits for the mutex.
C14_Witness ==
  \E a, b \in Tasks :
    /\ a # b
    /\ jobpc[a] = "printC"
    /\ jobpc[b] = "lockC"

\* C15: tasks are launched in list order, and with config.threads = 1 a task
\* is launched only when every earlier one has finished, so the progress
\* lines appear in list order.
C15_AdmissionOrder ==
  /\ \A j \in Tasks : jobpc[j] # "idle" =>
       \A h \in 1..(j - 1) : jobpc[h] # "idle"
  /\ \A x, y \in 1..Len(futures) : x < y => futures[x] < futures[y]
  /\ threads = 1 =>
       /\ \A j \in Tasks : jobpc[j] # "idle" =>
            \A h \in 1..(j - 1) : IsReady(h)
       /\ \A x, y \in 1..Len(progress) :
            x < y => progress[x].task < progress[y].task

\* C15 witness: one thread, three tasks, and the progress lines of two of
\* them printed.
C15_Witness ==
  /\ threads = 1
  /\ n = 3
  /\ Len(progress) >= 2

\* The steps of process_image in the order of the try block.
StepOrder == <<"tiler", "pack", "meta", "count">>

\* C16: a worker enters the steps in the order tiler, packing, metadata,
\* count; after a tiler failure it enters neither packing nor metadata
\* writing, and after a packing failure it neither writes metadata nor
\* increments the counter.
C16_StepOrder ==
  \A j \in Tasks :
    /\ Len(steps[j]) <= Len(StepOrder)
    /\ steps[j] = SubSeq(StepOrder, 1, Len(steps[j]))
    /\ failedAt[j] = "tiler" => steps[j] = <<"tiler">>
    /\ failedAt[j] = "pack" => (steps[j] = <<"tiler", "pack">> /\ current[j] = 0)
    /\ failedAt[j] = "meta" => current[j] = 0

\* C16 witness: one worker has returned after a tiler failure and another
\* after a packing failure.
C16_Witness ==
  \E a, b \in Tasks :
    /\ IsReady(a) /\ failedAt[a] = "tiler"
    /\ IsReady(b) /\ failedAt[b] = "pack"

\* C20 as claimed: the progress lines appear in strictly increasing order of
\* their completed value.
C20_ProgressIncreasing ==
  \A x, y \in 1..Len(progress) :
    x < y => progress[x].current < progress[y].current

\* C20 amended: every progress line carries the value its worker obtained at
\* line 402, no two lines carry the same value, at the end the values are
\* exactly 1..completed_count, and with config.threads = 1 they appear in
\* increasing order; with more threads a larger value may be printed first.
C20_ProgressDistinct ==
  /\ \A x \in 1..Len(progress) :
       /\ progress[x].current = current[progress[x].task]
       /\ progress[x].current \in 1..completed_count
  /\ \A x, y \in 1..Len(progress) :
       x # y => progress[x].current # progress[y].current
  /\ pc = "done" =>
       {progress[x].current : x \in 1..Len(progress)} = 1..completed_count
  /\ threads = 1 => C20_ProgressIncreasing

\* C20 witness: a progress line with a larger value stands before one with a
\* smaller value.
C20_Witness ==
  \E x, y \in 1..Len(progress) :
    x < y /\ progress[x].current > progress[y].current

----------------------------------------------------------------------------
\* The claims about the packer (PackSpec)

\* The sum of the sizes of a sequence of entries.
RECURSIVE SumSizes(_)
SumSizes(m) == IF m = <<>> THEN 0 ELSE Head(m).size + SumSizes(Tail(m))

\* The files the discovery is specified to find in a tile folder: a regular
\* file with a tile extension, in a numeric row of a numeric level.
Qualifying(f) ==
  {p \in DOMAIN f :
     /\ Len(p) = 3
     /\ IsDirectory(f, SubSeq(p, 1, 1)) /\ AllDigits(p[1])
     /\ IsDirectory(f, SubSeq(p, 1, 2)) /\ AllDigits(p[2])
     /\ IsRegularFile(f, p)
     /\ IsTileExtension(LowerCase(Extension(p[3])))}

\* The numeric directories directly under the root of a tile folder.
LevelDirs(f) ==
  {p \in DOMAIN f : Len(p) = 1 /\ IsDirectory(f, p) /\ AllDigits(p[1])}

\* C6: the first entry starts at 0, every later entry starts where the one
\* before it ends, the offsets increase strictly, and the sizes add up to
\* the number of bytes written to the blob.
C6_Offsets ==
  /\ \A x \in 1..Len(tiles_map) :
       tiles_map[x].start_offset =
         IF x = 1 THEN 0
         ELSE tiles_map[x - 1].start_offset + tiles_map[x - 1].size
  /\ \A x \in 2..Len(tiles_map) :
       tiles_map[x].start_offset > tiles_map[x - 1].start_offset
  /\ pcm \in {"pack", "returned", "written"} =>
       SumSizes(tiles_map) = Len(fs[BinaryPath].data)

\* C6 witness: three tiles are packed and two of them differ in size.
C6_Witness ==
  /\ pcm = "returned"
  /\ Len(tiles_map) = 3
  /\ tiles_map[1].size # tiles_map[2].size

\* C7 as claimed: no entry belongs to a tile under a non-numeric level
\* directory or under a non-numeric row directory.
C7_NonNumericSkipped ==
  \A x \in 1..Len(tiles_map) :
    AllDigits(tile_files[x][1]) /\ AllDigits(tile_files[x][2])

\* C8 as claimed: the entries returned are, one for one, the qualifying
\* files of the tile folder, and there are as many of the ones as of the
\* others.
C8_OneEntryPerQualifyingFile ==
  pcm = "returned" =>
    /\ Len(tiles_map) = Cardinality(Qualifying(fs0))
    /\ {tile_files[x] : x \in 1..Len(tiles_map)} = Qualifying(fs0)
    /\ \A x, y \in 1..Len(tiles_map) : x # y => tile_files[x] # tile_files[y]

\* C9 as claimed: no entry is recorded for a tile that cannot be read, and
\* the function does not return normally when a discovered tile cannot be
\* read.
C9_UnreadableTileFails ==
  /\ \A x \in 1..Len(tiles_map) : fs0[tile_files[x]].readable
  /\ pcm \in {"returned", "written"} =>
       \A p \in Discovered(fs0) : fs0[p].readable

\* C10: once the function has returned the blob is there; without
\* keep_tiles no numeric directory is left under the root and blank.png is
\* gone; with keep_tiles everything but the blob is as it was. The metadata
\* file written afterwards joins the blob.
C10_Cleanup ==
  /\ pcm \in {"returned", "written"} =>
       /\ IsRegularFile(fs, BinaryPath)
       /\ ~keep_tiles => (LevelDirs(fs) = {} /\ BlankPath \notin DOMAIN fs)
       /\ keep_tiles =>
            \A p \in DOMAIN fs0 \ {BinaryPath} :
              p \in DOMAIN fs /\ fs[p] = fs0[p]
  /\ pcm = "written" =>
       (IsRegularFile(fs, MetaPath) /\ IsRegularFile(fs, BinaryPath))

\* C10 witness: a folder with two level directories and blank.png has been
\* packed without keep_tiles and its metadata written.
C10_Witness ==
  /\ pcm = "written"
  /\ ~keep_tiles
  /\ Cardinality(LevelDirs(fs0)) = 2
  /\ BlankPath \in DOMAIN fs0

\* The full path string of a path: its names joined by "/".
RECURSIVE PathString(_)
PathString(p) ==
  IF Len(p) = 1 THEN Head(p) ELSE Head(p) \o <<47>> \o PathString(Tail(p))

\* C13 as claimed: the entries are in ascending lexicographic order of the
\* full path strings of their tile files.
C13_PathStringOrder ==
  \A x \in 2..Len(tiles_map) :
    NameLess(PathString(tile_files[x - 1]), PathString(tile_files[x]))

\* The exceptions that leave merge_tiles_to_binary.
MergeErrors == {"Cannot create binary file", "Failed to compress data"}

\* C18: when merge_tiles_to_binary has thrown, every directory and file the
\* tile folder held at the call is still there and unchanged (the blob
\* apart), with and without keep_tiles.
C18_FailureDeletesNothing ==
  (pcm = "thrown" /\ thrown \in MergeErrors) =>
    \A p \in DOMAIN fs0 \ {BinaryPath} : p \in DOMAIN fs /\ fs[p] = fs0[p]

\* C18 witness: without keep_tiles, compression failed after one tile had
\* been packed, in a folder that holds blank.png.
C18_Witness ==
  /\ pcm = "thrown"
  /\ thrown = "Failed to compress data"
  /\ ~keep_tiles
  /\ Len(tiles_map) >= 1
  /\ BlankPath \in DOMAIN fs0

\* C19 as claimed: the keys of the entries of one run are pairwise distinct,
\* so the descriptor has one key for every packed tile.
C19_KeysDistinct ==
  /\ \A x, y \in 1..Len(tiles_map) :
       x # y => tiles_map[x].key # tiles_map[y].key
  /\ pcm = "written" =>
       Cardinality({metadata[x].key : x \in 1..Len(metadata)}) = Len(tiles_map)

\* C11: a second call on the same tile folder, the tiles kept and the blob
\* of the first call in place, leaves the same blob bytes and returns the
\* same entries, whatever the order the directories are enumerated in.
C11_RerunIdentical ==
  (run = 2 /\ pcm \in {"returned", "written"}) =>
    Outcome(fs, tiles_map) = first

\* C11 witness: the second call has returned three entries.
C11_Witness ==
  /\ run = 2
  /\ pcm = "returned"
  /\ Len(tiles_map) = 3
  /\ IsRegularFile(fs0, BinaryPath)

----------------------------------------------------------------------------
\* The claims about read_tasks (ReadSpec)

\* The positions both lists have, and those of them where no line is blank.
PairPositions ==
  1..(IF Len(inputs.lines) <= Len(outputs.lines)
        THEN Len(inputs.lines) ELSE Len(outputs.lines))

KeptPositions ==
  {q \in PairPositions : inputs.lines[q] # <<>> /\ outputs.lines[q] # <<>>}

\* The k-th kept position, counting from 1.
KeptAt(kth) ==
  CHOOSE q \in KeptPositions :
    Cardinality({r \in KeptPositions : r < q}) = kth - 1

\* C12: read_tasks pairs the lines by position up to the end of the shorter
\* list, builds one job for every pair with two non-empty lines and none for
\* the others, in list order, and numbers the jobs 0,1,2,... as built.
C12_PairwiseJobs ==
  rpc = "returned" =>
    /\ Len(tasks) = Cardinality(KeptPositions)
    /\ \A kth \in 1..Len(tasks) :
         tasks[kth] = [input_path  |-> inputs.lines[KeptAt(kth)],
                       output_path |-> outputs.lines[KeptAt(kth)],
                       index       |-> kth - 1]

\* C12 witness: lists of different lengths, a pair skipped for its blank
\* output line, and a pair kept after it.
C12_Witness ==
  /\ rpc = "returned"
  /\ Len(inputs.lines) > Len(outputs.lines)
  /\ Len(tasks) >= 1
  /\ \E q \in PairPositions :
       /\ inputs.lines[q] # <<>>
       /\ outputs.lines[q] = <<>>
       /\ \E r \in KeptPositions : r > q

----------------------------------------------------------------------------
\* The claims about next_power_of_2 (SizeSpec)

IsPowerOf2(v) == \E e \in 0..30 : v = 2^e

\* v is the smallest power of two that is >= m.
SmallestPowerOf2(v, m) ==
  /\ IsPowerOf2(v)
  /\ v >= m
  /\ v = 1 \/ v \div 2 < m

\* What C17 says of a call that has returned and whose result was recorded.
SizeCorrect ==
  /\ IF max_dim <= 0 THEN power = 1 ELSE SmallestPowerOf2(power, max_dim)
  /\ spc = "recorded" =>
       /\ target_size = power
       /\ meta.width = power
       /\ meta.height = power

\* C17 as stated: for every int n the call returns, with the smallest power
\* of two >= n (1 for n <= 0), and that value is recorded as width and height.
C17_EveryInt ==
  (spc = "call") ~> (spc = "recorded" /\ SizeCorrect)

\* C17 amended: the same for every n <= 2^30.
C17_UpTo2To30 ==
  /\ [](spc \in {"returned", "recorded"} /\ max_dim <= HalfMax + 1 => SizeCorrect)
  /\ (spc = "call" /\ max_dim <= HalfMax + 1) ~> (spc = "recorded" /\ SizeCorrect)

\* C17 witness: 2^30 was recorded for an image whose larger side is 2^30 - 1.
C17_Witness ==
  /\ spc = "recorded"
  /\ max_dim = HalfMax
  /\ meta = [width |-> HalfMax + 1, height |-> HalfMax + 1]

====
